---- MODULE Spec2Model ----
(***************************************************************************)
(* Model of translate-selection.py: a one-shot pipeline that reads the     *)
(* Wayland primary selection / clipboard, translates it with `trans`,      *)
(* shows the result with notify-send and copies it with wl-copy.           *)
(*                                                                         *)
(* A Python str is a sequence of tokens.  The tokens of text that comes    *)
(* from outside (selection, translator output) are single characters; a   *)
(* literal of the script that is never looked into is one token.           *)
(***************************************************************************)
EXTENDS Integers, Sequences, FiniteSets, TLC

\* ------------------------------------------------------------------ bounds
\* longest stdout of wl-paste that is enumerated
MaxSelLen == 3
\* longest stdout of trans that is enumerated
MaxOutLen == 2

\* ------------------------------------------------------------- characters
Chars == {"a", " ", "\n", "\r"}
\* the characters str.strip() removes
Whitespace == {" ", "\n", "\r"}
\* the characters str.splitlines() breaks at ("\r\n" is one break)
LineBreaks == {"\n", "\r"}

Texts(n) == UNION {[1..k -> Chars] : k \in 0..n}

\* Python's None, as a value comparable with every str of the model
None == <<"<None>">>

\* truth value of a Python object that is a str or None
Truthy(x) == x # None /\ x # <<>>

\* ------------------------------------------------------------ str methods
RECURSIVE LStrip(_)
LStrip(s) == IF s = <<>> \/ s[1] \notin Whitespace THEN s ELSE LStrip(Tail(s))

RECURSIVE RStrip(_)
RStrip(s) ==
    IF s = <<>> \/ s[Len(s)] \notin Whitespace THEN s
    ELSE RStrip(SubSeq(s, 1, Len(s) - 1))

StripLeftOnly(s) == LStrip(s)
\* str.strip()
Strip(s) == RStrip(LStrip(s))

\* index of the first line break of s, Len(s)+1 when there is none
RECURSIVE FirstBreak(_, _)
FirstBreak(s, i) ==
    IF i > Len(s) \/ s[i] \in LineBreaks THEN i ELSE FirstBreak(s, i + 1)

\* str.splitlines(): the lines without their line breaks; no empty last line
RECURSIVE SplitLines(_)
SplitLines(s) ==
    IF s = <<>> THEN <<>>
    ELSE LET i == FirstBreak(s, 1)
             eol == IF i < Len(s) /\ s[i] = "\r" /\ s[i + 1] = "\n" THEN 2 ELSE 1
         IN  IF i > Len(s) THEN <<s>>
             ELSE <<SubSeq(s, 1, i - 1)>> \o SplitLines(SubSeq(s, i + eol, Len(s)))

\* sep.join(parts)
RECURSIVE Join(_, _)
Join(sep, parts) ==
    IF parts = <<>> THEN <<>>
    ELSE IF Len(parts) = 1 THEN parts[1]
    ELSE parts[1] \o sep \o Join(sep, Tail(parts))

JoinLinesNoSeparator(content) == Join(<<>>, SplitLines(content))
\* " ".join(content.splitlines())
JoinLines(content) == Join(<<" ">>, SplitLines(content))

\* ------------------------------------------------------------ the script
\* CONFIG["NOTIFICATION_TITLE"]
NOTIFICATION_TITLE == <<"Translated">>

\* how a child process can end: exit status 0, exit status # 0, or
\* subprocess.run raising before/while running it (launch failure, ...)
Outcomes == {"ok", "nonzero", "raise"}

\* str(e) of the exception subprocess.run raised
Cause(outcome) ==
    IF outcome = "nonzero" THEN <<"returned non-zero exit status">>
    ELSE <<"could not be run">>

RaisesOnLaunchOnly(outcome, check) == outcome = "raise"
RaisesWhateverCheck(outcome, check) == outcome # "ok"
RaisesNever(outcome, check) == FALSE
\* run_command: does the call raise ScriptError?
Raises(outcome, check) == outcome = "raise" \/ (check /\ outcome = "nonzero")

\* run_command: the message of the ScriptError it raises (the two quoting
\* marks around the command line are left out of the literal tokens)
CommandFailed(command, outcome) ==
    <<"Command ">> \o Join(<<" ">>, command) \o <<" failed: ">> \o Cause(outcome)

ToolMissing == <<"Fallback tool 'trans' not found. Please install 'trans-shell'.">>
EmptyResult == <<"'trans-shell' returned an empty result.">>

\* the argument vectors the script builds
PastePrimaryCmd == << <<"wl-paste">>, <<"-p">> >>
PasteCmd == << <<"wl-paste">> >>
TransCmd(text) == << <<"trans">>, <<"-b">>, text >>
NotifyResultCmd(text) == << <<"notify-send">>, NOTIFICATION_TITLE, text >>
NoSelectionCmd == << <<"notify-send">>, <<"Translation">>, <<"No text selected or copied.">> >>
NotifyFailedCmd(msg) ==
    << <<"notify-send">>, <<"-u">>, <<"critical">>, <<"Translation Failed">>, msg >>
CopyCmd == << <<"wl-copy">> >>

VARIABLES
    pc,               \* position of main()
    trans_on_path,    \* environment: shutil.which("trans") is not None
    paste_stdout,     \* get_clipboard_text's frame: the stdout of each wl-paste
                      \* that returned, in order; dropped when main goes on
    processed_text,   \* main's local; None until get_clipboard_text returned
    trans_stdout,     \* translate_with_trans_shell's process.stdout; None before
    translated_text,  \* main's local; None until the translator returned
    error_message,    \* str(e) in the except block; None before
    calls,            \* the child processes run so far, in order
    clipboard,        \* what this run put into the clipboard; None if nothing
    exit              \* "running", "returned" or "uncaught" (exception left main)

vars == <<pc, trans_on_path, paste_stdout, processed_text, trans_stdout,
          translated_text, error_message, calls, clipboard, exit>>

Call(argv, stdin, outcome) == [argv |-> argv, stdin |-> stdin, outcome |-> outcome]

\* the stdout a child can have produced: enumerated only where it is read
Stdouts(outcome, n) == IF outcome = "ok" THEN Texts(n) ELSE {<<>>}

Init ==
    /\ pc = "check_trans"
    /\ trans_on_path \in BOOLEAN
    /\ paste_stdout = <<>>
    /\ processed_text = None
    /\ trans_stdout = None
    /\ translated_text = None
    /\ error_message = None
    /\ calls = <<>>
    /\ clipboard = None
    /\ exit = "running"

\* the except block is entered with the ScriptError's message
Fail(msg) ==
    /\ error_message' = msg
    /\ pc' = "notify_failed"

CheckAvailabilityNoRaise ==
    /\ pc = "check_trans" /\ exit = "running"
    /\ pc' = "read_primary"
    /\ UNCHANGED <<trans_on_path, paste_stdout, processed_text, trans_stdout,
                   translated_text, error_message, calls, clipboard, exit>>
\* main, step 1: is_command_available("trans")
CheckAvailability ==
    /\ pc = "check_trans" /\ exit = "running"
    /\ IF trans_on_path
       THEN pc' = "read_primary" /\ UNCHANGED error_message
       ELSE Fail(ToolMissing)
    /\ UNCHANGED <<trans_on_path, paste_stdout, processed_text, trans_stdout,
                   translated_text, calls, clipboard, exit>>

\* main after get_clipboard_text returned result
Returned(result) ==
    /\ processed_text' = result
    /\ pc' = IF ~Truthy(result) THEN "notify_no_selection" ELSE "translate"
    /\ UNCHANGED error_message

ContentResultNoCheck(content) == JoinLines(content)
\* the tail of get_clipboard_text
ContentResult(content) == IF content # <<>> THEN JoinLines(content) ELSE None

\* get_clipboard_text: the primary-selection read
ReadPrimary ==
    /\ pc = "read_primary" /\ exit = "running"
    /\ \E outcome \in Outcomes : \E out \in Stdouts(outcome, MaxSelLen) :
        /\ calls' = Append(calls, Call(PastePrimaryCmd, None, outcome))
        /\ IF Raises(outcome, TRUE)
           THEN /\ Fail(CommandFailed(PastePrimaryCmd, outcome))
                /\ UNCHANGED <<processed_text, paste_stdout>>
           ELSE /\ paste_stdout' = Append(paste_stdout, out)
                /\ LET content == Strip(out)
                   IN  IF content = <<>>
                       THEN pc' = "read_clipboard"
                            /\ UNCHANGED <<processed_text, error_message>>
                       ELSE Returned(ContentResult(content))
    /\ UNCHANGED <<trans_on_path, trans_stdout, translated_text, clipboard, exit>>

\* get_clipboard_text: the regular-clipboard read
ReadClipboard ==
    /\ pc = "read_clipboard" /\ exit = "running"
    /\ \E outcome \in Outcomes : \E out \in Stdouts(outcome, MaxSelLen) :
        /\ calls' = Append(calls, Call(PasteCmd, None, outcome))
        /\ IF Raises(outcome, TRUE)
           THEN /\ Fail(CommandFailed(PasteCmd, outcome))
                /\ UNCHANGED <<processed_text, paste_stdout>>
           ELSE /\ paste_stdout' = Append(paste_stdout, out)
                /\ Returned(ContentResult(Strip(out)))
    /\ UNCHANGED <<trans_on_path, trans_stdout, translated_text, clipboard, exit>>

\* main, the no-selection branch: subprocess.run called directly
NotifyNoSelection ==
    /\ pc = "notify_no_selection" /\ exit = "running"
    /\ \E outcome \in Outcomes :
        /\ calls' = Append(calls, Call(NoSelectionCmd, None, outcome))
        /\ exit' = IF outcome = "raise" THEN "uncaught" ELSE "returned"
    /\ UNCHANGED <<pc, trans_on_path, paste_stdout, processed_text, trans_stdout,
                   translated_text, error_message, clipboard>>

\* translate_with_trans_shell
Translate ==
    /\ pc = "translate" /\ exit = "running"
    /\ paste_stdout' = <<>>
    /\ \E outcome \in Outcomes : \E out \in Stdouts(outcome, MaxOutLen) :
        LET command == TransCmd(processed_text)
        IN  /\ calls' = Append(calls, Call(command, None, outcome))
            /\ IF Raises(outcome, TRUE)
               THEN /\ Fail(CommandFailed(command, outcome))
                    /\ UNCHANGED <<trans_stdout, translated_text>>
               ELSE /\ trans_stdout' = out
                    /\ IF Strip(out) = <<>>
                       THEN Fail(EmptyResult) /\ UNCHANGED translated_text
                       ELSE /\ translated_text' = Strip(out)
                            /\ pc' = "notify_result"
                            /\ UNCHANGED error_message
    /\ UNCHANGED <<trans_on_path, processed_text, clipboard, exit>>

\* main, step 4: run_command(["notify-send", title, translated_text], check=False)
NotifyResult ==
    /\ pc = "notify_result" /\ exit = "running"
    /\ \E outcome \in Outcomes :
        LET command == NotifyResultCmd(translated_text)
        IN  /\ calls' = Append(calls, Call(command, None, outcome))
            /\ IF Raises(outcome, FALSE)
               THEN Fail(CommandFailed(command, outcome)) /\ UNCHANGED exit
               ELSE IF Truthy(translated_text)
               THEN pc' = "copy_result" /\ UNCHANGED <<error_message, exit>>
               ELSE pc' = "done" /\ exit' = "returned" /\ UNCHANGED error_message
    /\ UNCHANGED <<trans_on_path, paste_stdout, processed_text, trans_stdout,
                   translated_text, clipboard>>

CopyResultCopiesSource ==
    /\ pc = "copy_result" /\ exit = "running"
    /\ \E outcome \in Outcomes :
        /\ calls' = Append(calls, Call(CopyCmd, processed_text, outcome))
        /\ clipboard' \in
             CASE outcome = "ok" -> {processed_text}
               [] outcome = "nonzero" -> {clipboard, processed_text}
               [] OTHER -> {clipboard}
        /\ IF Raises(outcome, TRUE)
           THEN Fail(CommandFailed(CopyCmd, outcome)) /\ UNCHANGED exit
           ELSE pc' = "done" /\ exit' = "returned" /\ UNCHANGED error_message
    /\ UNCHANGED <<trans_on_path, paste_stdout, processed_text, trans_stdout,
                   translated_text>>
\* main, step 5: run_command(["wl-copy"], input_data=translated_text, capture_output=False)
\* (a wl-copy that exits non-zero may or may not have set the clipboard)
CopyResult ==
    /\ pc = "copy_result" /\ exit = "running"
    /\ \E outcome \in Outcomes :
        /\ calls' = Append(calls, Call(CopyCmd, translated_text, outcome))
        /\ clipboard' \in
             CASE outcome = "ok" -> {translated_text}
               [] outcome = "nonzero" -> {clipboard, translated_text}
               [] OTHER -> {clipboard}
        /\ IF Raises(outcome, TRUE)
           THEN Fail(CommandFailed(CopyCmd, outcome)) /\ UNCHANGED exit
           ELSE pc' = "done" /\ exit' = "returned" /\ UNCHANGED error_message
    /\ UNCHANGED <<trans_on_path, paste_stdout, processed_text, trans_stdout,
                   translated_text>>

\* main, the except block: subprocess.run called directly
NotifyFailed ==
    /\ pc = "notify_failed" /\ exit = "running"
    /\ \E outcome \in Outcomes :
        /\ calls' = Append(calls, Call(NotifyFailedCmd(error_message), None, outcome))
        /\ exit' = IF outcome = "raise" THEN "uncaught" ELSE "returned"
    /\ UNCHANGED <<pc, trans_on_path, paste_stdout, processed_text, trans_stdout,
                   translated_text, error_message, clipboard>>

Next ==
    \/ CheckAvailability
    \/ ReadPrimary
    \/ ReadClipboard
    \/ NotifyNoSelection
    \/ Translate
    \/ NotifyResult
    \/ CopyResult
    \/ NotifyFailed

Spec == Init /\ [][Next]_vars

\* ------------------------------------------------- vocabulary of the claims
\* the Driver state of the specification that a position of main() lies in
DriverState ==
    CASE pc = "check_trans" -> "CheckingAvailability"
      [] pc \in {"read_primary", "read_clipboard"} -> "ReadingSelection"
      [] pc = "translate" -> "Translating"
      [] pc = "notify_result" -> "Notifying"
      [] pc = "copy_result" -> "WritingClipboard"
      [] pc = "done" -> "Done"
      [] pc = "notify_no_selection" -> "NoSelection"
      [] pc = "notify_failed" -> "Failed"

Terminated == exit # "running"

IsRead(c) == c.argv[1] = <<"wl-paste">>
IsPrimaryRead(c) == c.argv = PastePrimaryCmd
IsClipboardRead(c) == c.argv = PasteCmd
IsTrans(c) == c.argv[1] = <<"trans">>
IsCopy(c) == c.argv[1] = <<"wl-copy">>
IsNotify(c) == c.argv[1] = <<"notify-send">>
IsCritical(c) ==
    IsNotify(c) /\ Len(c.argv) = 5 /\ c.argv[2] = <<"-u">> /\ c.argv[3] = <<"critical">>
IsSuccessNote(c) == IsNotify(c) /\ Len(c.argv) = 3 /\ c.argv[2] = NOTIFICATION_TITLE
IsInfoNote(c) ==
    /\ IsNotify(c) /\ Len(c.argv) = 3
    /\ c.argv[2] = <<"Translation">>
    /\ c.argv[3] = <<"No text selected or copied.">>

Primaries == {i \in DOMAIN calls : IsPrimaryRead(calls[i])}
ClipboardReads == {i \in DOMAIN calls : IsClipboardRead(calls[i])}
Translations == {i \in DOMAIN calls : IsTrans(calls[i])}
Copies == {i \in DOMAIN calls : IsCopy(calls[i])}
Notifications == {i \in DOMAIN calls : IsNotify(calls[i])}
Criticals == {i \in DOMAIN calls : IsCritical(calls[i])}
SuccessNotes == {i \in DOMAIN calls : IsSuccessNote(calls[i])}
InfoNotes == {i \in DOMAIN calls : IsInfoNote(calls[i])}

\* t is s without its leading and trailing whitespace
IsTrimOf(t, s) ==
    \E i \in 1..(Len(s) + 1) : \E j \in 0..Len(s) :
        /\ t = SubSeq(s, i, j)
        /\ \A k \in 1..(i - 1) : s[k] \in Whitespace
        /\ \A k \in (j + 1)..Len(s) : s[k] \in Whitespace
        /\ t # <<>> => t[1] \notin Whitespace /\ t[Len(t)] \notin Whitespace

\* s with every line break ("\r\n", "\n" or "\r") replaced by one space
RECURSIVE CollapseBreaks(_)
CollapseBreaks(s) ==
    IF s = <<>> THEN <<>>
    ELSE IF Len(s) >= 2 /\ s[1] = "\r" /\ s[2] = "\n"
    THEN <<" ">> \o CollapseBreaks(SubSeq(s, 3, Len(s)))
    ELSE IF s[1] \in {"\n", "\r"} THEN <<" ">> \o CollapseBreaks(Tail(s))
    ELSE <<s[1]>> \o CollapseBreaks(Tail(s))

\* r is T trimmed, with its line breaks collapsed to spaces
IsNormalized(r, T) == \E t \in {SubSeq(T, i, j) : i \in 1..(Len(T) + 1), j \in 0..Len(T)} :
    IsTrimOf(t, T) /\ r = CollapseBreaks(t)

IsBlank(s) == \A k \in DOMAIN s : s[k] \in Whitespace

\* ------------------------------------------------------------------ claims
\* C1: when `trans` is not on the search path the Driver goes from
\* CheckingAvailability straight to Failed; wl-paste, trans and wl-copy are
\* never run, and the run issues exactly one notification, a critical one
\* whose body is the message telling to install the tool.
C1_MissingToolFailsBeforeAnyRead ==
    (~trans_on_path /\ pc # "check_trans") =>
        /\ DriverState = "Failed"
        /\ error_message = ToolMissing
        /\ \A i \in DOMAIN calls :
              ~IsRead(calls[i]) /\ ~IsTrans(calls[i]) /\ ~IsCopy(calls[i])
        /\ clipboard = None
        /\ ~Terminated => calls = <<>>
        /\ Terminated =>
              /\ Len(calls) = 1
              /\ IsCritical(calls[1])
              /\ calls[1].argv[5] = ToolMissing

C1_Witness ==
    ~trans_on_path /\ exit = "returned" /\ Len(calls) = 1 /\ IsCritical(calls[1])

\* C2: when the primary-selection read and the regular-clipboard read both
\* return empty or whitespace-only text, get_clipboard_text returns None and
\* the Driver is in NoSelection: the translator and wl-copy are never run, no
\* critical notification is issued, and the run ends with exactly one
\* notification, the informational "No text selected or copied.".
C2_BothEmptyEndsInNoSelection ==
    (/\ Len(paste_stdout) = 2
     /\ IsBlank(paste_stdout[1])
     /\ IsBlank(paste_stdout[2])) =>
        /\ processed_text = None
        /\ DriverState = "NoSelection"
        /\ Translations = {} /\ Copies = {} /\ Criticals = {}
        /\ clipboard = None
        /\ ~Terminated => Notifications = {}
        /\ Terminated =>
              /\ Cardinality(Notifications) = 1
              /\ IsInfoNote(calls[Len(calls)])

C2_Witness ==
    /\ Len(paste_stdout) = 2
    /\ paste_stdout[1] = <<" ">>
    /\ paste_stdout[2] = <<"\n", " ">>
    /\ Terminated
    /\ InfoNotes = {3}

\* get_clipboard_text has returned and its frame is still there
ReaderReturned == pc \in {"translate", "notify_no_selection"} /\ ~Terminated

\* the parts of C3 that do not depend on what a non-empty clipboard text is
C3_PrimaryFirst ==
    /\ \A i \in DOMAIN calls : IsRead(calls[i]) => i <= 2
    /\ \A i \in Primaries : i = 1
    /\ \A i \in ClipboardReads :
          i = 2 /\ IsPrimaryRead(calls[1]) /\ calls[1].outcome = "ok"
    /\ pc = "read_clipboard" => Len(paste_stdout) = 1 /\ IsBlank(paste_stdout[1])
    /\ Len(paste_stdout) = 2 => IsBlank(paste_stdout[1]) /\ ClipboardReads = {2}
    /\ (Len(paste_stdout) >= 1 /\ ~IsBlank(paste_stdout[1])) =>
          /\ Len(paste_stdout) = 1
          /\ ReaderReturned
          /\ ClipboardReads = {}
          /\ IsNormalized(processed_text, paste_stdout[1])

\* C3 as stated: the primary selection is read first and, when its trimmed
\* output is non-empty, returned normalized without a clipboard read; the
\* clipboard is read only when the trimmed primary output is empty, and then
\* every non-empty clipboard text T is returned trimmed with its line breaks
\* collapsed to spaces, never as None.
C3_AsStated ==
    /\ C3_PrimaryFirst
    /\ (Len(paste_stdout) = 2 /\ paste_stdout[2] # <<>>) =>
          /\ processed_text # None
          /\ IsNormalized(processed_text, paste_stdout[2])

\* C3 (amended): as C3_AsStated, for every clipboard text T whose trimmed form
\* is non-empty; a clipboard text of whitespace only is returned as None.
C3_SelectionReader ==
    /\ C3_PrimaryFirst
    /\ (Len(paste_stdout) = 2 /\ ~IsBlank(paste_stdout[2])) =>
          /\ processed_text # None
          /\ IsNormalized(processed_text, paste_stdout[2])
    /\ (Len(paste_stdout) = 2 /\ IsBlank(paste_stdout[2])) => processed_text = None

C3_Witness ==
    /\ ReaderReturned
    /\ Len(paste_stdout) = 2
    /\ paste_stdout[2] = <<"a", "\n", "a">>
    /\ processed_text = <<"a", " ", "a">>

\* C4: when the translator was run and exited non-zero or could not be
\* launched, the Driver is in Failed with the command-failure message of that
\* trans command; no success notification is issued, wl-copy is never run and
\* the clipboard is untouched; the run ends with exactly one notification, the
\* critical one carrying that message.
C4_TranslatorFailureFails ==
    \A i \in Translations : calls[i].outcome # "ok" =>
        /\ DriverState = "Failed"
        /\ Truthy(processed_text)
        /\ error_message = CommandFailed(TransCmd(processed_text), calls[i].outcome)
        /\ error_message[1] = "Command "
        /\ SuccessNotes = {} /\ Copies = {}
        /\ clipboard = None
        /\ ~Terminated => Notifications = {}
        /\ Terminated =>
              /\ Cardinality(Notifications) = 1
              /\ IsCritical(calls[Len(calls)])
              /\ calls[Len(calls)].argv[5] = error_message

C4_Witness ==
    /\ Terminated
    /\ \E i \in Translations : calls[i].outcome = "nonzero"
    /\ Cardinality(Criticals) = 1

\* C5: the translator returns a value exactly when trans exits 0 and its
\* trimmed stdout is non-empty, and the value is that trimmed stdout; when
\* trans exits 0 with empty or whitespace-only stdout the translator raises
\* the empty-result error; the translated text main holds is never empty.
C5_TranslatorResult ==
    /\ translated_text # <<>>
    /\ translated_text # None <=>
          /\ \E i \in Translations : calls[i].outcome = "ok"
          /\ trans_stdout # None
          /\ ~IsBlank(trans_stdout)
    /\ translated_text # None => IsTrimOf(translated_text, trans_stdout)
    /\ (\A i \in Translations : calls[i].outcome # "ok") => trans_stdout = None
    /\ (trans_stdout # None /\ IsBlank(trans_stdout)) =>
          /\ translated_text = None
          /\ error_message = EmptyResult
          /\ DriverState = "Failed"

C5_Witness ==
    /\ trans_stdout = <<"a", "\n">>
    /\ translated_text = <<"a">>

C5_WitnessEmpty ==
    /\ trans_stdout = <<"\n">>
    /\ error_message = EmptyResult

\* C6 as stated: once the translator has returned, whatever the outcome of the
\* success notification (non-zero exit or failure to launch) the failure is
\* swallowed: the Driver does not go to Failed because of it and wl-copy is
\* run next with the translated text.
C6_AsStated ==
    \A i \in SuccessNotes :
        /\ i = Len(calls) => pc = "copy_result" /\ error_message = None
        /\ i < Len(calls) =>
              IsCopy(calls[i + 1]) /\ calls[i + 1].stdin = translated_text

\* the last child process run before the except block was entered
LastBeforeFailed == IF Terminated THEN calls[Len(calls) - 1] ELSE calls[Len(calls)]

\* a failure produces one critical notification instead of the remaining stages
C7_SingleCritical ==
    /\ Cardinality(Criticals) <= 1
    /\ \A i \in Criticals :
          /\ i = Len(calls) /\ Terminated
          /\ DriverState = "Failed"
          /\ calls[i].argv[5] = error_message
    /\ DriverState = "Failed" <=> error_message # None
    /\ (DriverState = "Failed" /\ Terminated) => Criticals = {Len(calls)}

\* C7 as stated: a failure produces a single critical notification instead of
\* the remaining stages; the Driver is never in Failed once the translator has
\* returned, and no run issues both a success and a critical notification, also
\* not when wl-copy fails.
C7_AsStated ==
    /\ C7_SingleCritical
    /\ translated_text # None => DriverState # "Failed"
    /\ ~(SuccessNotes # {} /\ Criticals # {})
    /\ \A i \in Copies : calls[i].outcome # "ok" => DriverState # "Failed"

\* C7 (amended): a failure produces a single critical notification instead of
\* the remaining stages; once the translator has returned the Driver is in
\* Failed exactly when the success notifier could not be launched or wl-copy
\* failed (non-zero exit or failure to launch), and only in those runs are both
\* a success and a critical notification issued.
C7_FailureAfterTranslation ==
    /\ C7_SingleCritical
    /\ (translated_text # None /\ DriverState = "Failed") =>
          \/ IsSuccessNote(LastBeforeFailed) /\ LastBeforeFailed.outcome = "raise"
          \/ IsCopy(LastBeforeFailed) /\ LastBeforeFailed.outcome # "ok"
    /\ (SuccessNotes # {} /\ Criticals # {}) =>
          translated_text # None /\ DriverState = "Failed"
    /\ \A i \in Copies : calls[i].outcome # "ok" =>
          DriverState = "Failed" /\ SuccessNotes = {i - 1}
    /\ \A i \in SuccessNotes : calls[i].outcome = "raise" => DriverState = "Failed"
    /\ \A i \in SuccessNotes : calls[i].outcome = "nonzero" => i + 1 \notin Criticals

C7_Witness ==
    /\ Terminated
    /\ \E i \in Copies : calls[i].outcome = "nonzero"
    /\ \E i \in SuccessNotes : calls[i].outcome = "ok"
    /\ Criticals = {Len(calls)}

\* C8 as stated: every run ends in Done, NoSelection or Failed with main
\* returning normally; whatever the outcomes of the child processes, no
\* exception leaves main, also not when the notifier fails on the NoSelection
\* path or on the Failed path.
C8_AsStated ==
    /\ exit # "uncaught"
    /\ Terminated => DriverState \in {"Done", "NoSelection", "Failed"}

\* what C9 says of every run
C9_WriteOnceAfterNotice ==
    /\ Cardinality(Copies) <= 1
    /\ Cardinality(SuccessNotes) <= 1
    /\ \A i \in Copies :
          /\ i > 1 /\ IsSuccessNote(calls[i - 1])
          /\ calls[i].stdin = calls[i - 1].argv[3]
          /\ calls[i].stdin # <<>>
          /\ IsTrimOf(calls[i].stdin, trans_stdout)
    /\ clipboard # None =>
          Copies # {} /\ clipboard = translated_text /\ IsTrimOf(clipboard, trans_stdout)

AllSucceeded == \A i \in DOMAIN calls : calls[i].outcome = "ok"

HappyEnd ==
    /\ pc = "done" /\ exit = "returned"
    /\ clipboard = translated_text
    /\ Truthy(clipboard)
    /\ Cardinality(Notifications) = 1
    /\ Notifications = SuccessNotes

\* C9 as stated: the clipboard is written at most once, only right after the
\* success notification and with the trimmed translator output that was its
\* body; a run in which every child process succeeds (exits 0) and a
\* non-empty selection was read ends in Done with the clipboard holding the
\* translated text and exactly one notification, the success one.
C9_AsStated ==
    /\ C9_WriteOnceAfterNotice
    /\ (Terminated /\ AllSucceeded /\ Truthy(processed_text)) => HappyEnd

\* C9 (amended): as C9_AsStated, for the runs in which every child process
\* succeeds, a non-empty selection was read and the trimmed output of the
\* translator is non-empty.
C9_ClipboardWrite ==
    /\ C9_WriteOnceAfterNotice
    /\ (/\ Terminated /\ AllSucceeded
        /\ Truthy(processed_text)
        /\ trans_stdout # None /\ ~IsBlank(trans_stdout)) => HappyEnd

C9_Witness ==
    /\ HappyEnd
    /\ AllSucceeded
    /\ trans_stdout = <<" ", "a">>
    /\ calls[Len(calls)].stdin = <<"a">>

\* C10: a selection read that exits non-zero or cannot be launched is not
\* taken for an empty one: nothing but the critical notification is run after
\* it (no clipboard read after a failed primary read, no translator, no
\* wl-copy, no informational notification), and the Driver is in Failed with
\* the command-failure message of that read, not in NoSelection; a failed
\* clipboard read is one that follows an empty primary read.
C10_FailedReadIsNotEmpty ==
    \A i \in DOMAIN calls : (IsRead(calls[i]) /\ calls[i].outcome # "ok") =>
        /\ DriverState = "Failed"
        /\ error_message = CommandFailed(calls[i].argv, calls[i].outcome)
        /\ \A j \in DOMAIN calls : j > i => IsCritical(calls[j])
        /\ Translations = {} /\ Copies = {} /\ InfoNotes = {}
        /\ processed_text = None
        /\ clipboard = None
        /\ Terminated => Criticals = {Len(calls)}
        /\ IsPrimaryRead(calls[i]) => i = 1 /\ ClipboardReads = {}
        /\ IsClipboardRead(calls[i]) =>
              i = 2 /\ Len(paste_stdout) = 1 /\ IsBlank(paste_stdout[1])

C10_Witness ==
    /\ Terminated
    /\ IsPrimaryRead(calls[1]) /\ calls[1].outcome = "nonzero"
    /\ Len(calls) = 2

C10_WitnessClipboard ==
    /\ Terminated
    /\ Len(calls) = 3
    /\ IsClipboardRead(calls[2]) /\ calls[2].outcome = "raise"

====
